---- MODULE Spec2Model ----
(***************************************************************************)
(* Identity subsystem of Mystry-Message: the sign-up route handler POST,   *)
(* the mongoose User collection it writes, the verification e-mail helper  *)
(* and the verification workflow, and the sign-in side: the credentials    *)
(* provider's authorize and the jwt and session callbacks of authOptions.  *)
(*                                                                         *)
(* Time is the millisecond clock read by Date.now() / new Date().  A       *)
(* verifyCode is kept as the integer whose decimal numeral the code        *)
(* string is (Number.prototype.toString of an integer is its numeral).     *)
(***************************************************************************)
EXTENDS Integers, Sequences, FiniteSets, TLC

VARIABLES store, now, last, reqs, token

vars == <<store, now, last, reqs, token>>

(***************************************************************************)
(* Program constants.                                                      *)
(***************************************************************************)
CodeBase == 100000
CodeSpan == 900000
OneHourMs == 3600000
BcryptRounds == 10

(***************************************************************************)
(* Bounds of the model.                                                    *)
(***************************************************************************)
MaxTicks == 1
MailboxTicks == 2
MaxMessages == 1
MaxRequests == 2

Usernames == {"alice", "bob"}
Emails == {"a@x.com", "b@x.com"}
Passwords == {"12345678", "abcdefgh"}
Salts == {"salt1"}
Contents == {"a ten-character message"}
\* the password of the requests in flight together
ConcPasswords == {"12345678"}
\* the single address of the mailbox specification
MailboxEmails == {"a@x.com"}
\* floor(Math.random() * 900000) for the sampled draws of Math.random()
RandomSamples == {0, CodeSpan - 1}

(***************************************************************************)
(* Leaves: code generator and credential hasher.                           *)
(***************************************************************************)
\* Math.floor(100000 + Math.random() * 900000).toString(), m = floor(random*900000)
GenVerifyCode(m) == CodeBase + m

Codes == {GenVerifyCode(m) : m \in RandomSamples}

\* bcrypt.hash(password, 10): a salted digest, never the plaintext
BcryptHash(p, salt) == [alg |-> "bcrypt", rounds |-> BcryptRounds, salt |-> salt, of |-> p]

\* bcrypt.compare(plaintext, digest)
BcryptCompare(p, digest) == digest.alg = "bcrypt" /\ digest.of = p

(***************************************************************************)
(* Input validation: signupSchema (zod), which the sign-up handler does    *)
(* not import, and the validators of UserSchema, which save() of a new     *)
(* document runs.  Spell gives the characters of the strings of the model. *)
(***************************************************************************)
Spell(str) ==
  CASE str = "alice" -> <<"a", "l", "i", "c", "e">>
    [] str = "bob" -> <<"b", "o", "b">>
    [] str = "ab" -> <<"a", "b">>
    [] str = "a_b" -> <<"a", "_", "b">>
    [] str = "averyveryverylongname" -> <<"a", "v", "e", "r", "y", "v", "e", "r", "y", "v", "e", "r", "y", "l", "o", "n", "g", "n", "a", "m", "e">>
    [] str = "a@x.com" -> <<"a", "@", "x", ".", "c", "o", "m">>
    [] str = "b@x.com" -> <<"b", "@", "x", ".", "c", "o", "m">>
    [] str = "not-an-email" -> <<"n", "o", "t", "-", "a", "n", "-", "e", "m", "a", "i", "l">>
    [] str = "12345678" -> <<"1", "2", "3", "4", "5", "6", "7", "8">>
    [] str = "abcdefgh" -> <<"a", "b", "c", "d", "e", "f", "g", "h">>
    [] str = "short" -> <<"s", "h", "o", "r", "t">>
    [] OTHER -> <<>>

Digits == {"0", "1", "2", "3", "4", "5", "6", "7", "8", "9"}

Letters == {"a", "b", "c", "d", "e", "f", "g", "h", "i", "j", "k", "l", "m", "n",
            "o", "p", "q", "r", "s", "t", "u", "v", "w", "x", "y", "z"}

\* usernameValidation: .min(3).max(20).regex(/^[a-zA-Z0-9]+$/)
usernameValidation(u) ==
  /\ Len(Spell(u)) >= 3
  /\ Len(Spell(u)) <= 20
  /\ \A k \in DOMAIN Spell(u) : Spell(u)[k] \in Letters \cup Digits

\* /^[a-zA-Z0-9._%+-]+@[a-zA-Z0-9.-]+\.[a-zA-Z]{2,}$/
EmailMatch(e) ==
  LET c == Spell(e)
  IN  \E at \in DOMAIN c, dot \in DOMAIN c :
        /\ c[at] = "@"
        /\ c[dot] = "."
        /\ 1 < at
        /\ at + 1 < dot
        /\ dot + 2 <= Len(c)
        /\ \A k \in 1..(at - 1) : c[k] \in Letters \cup Digits \cup {".", "_", "%", "+", "-"}
        /\ \A k \in (at + 1)..(dot - 1) : c[k] \in Letters \cup Digits \cup {".", "-"}
        /\ \A k \in (dot + 1)..Len(c) : c[k] \in Letters

\* signupSchema: username, z.string().email(), password .min(8)
signupSchema(u, e, p) ==
  /\ usernameValidation(u)
  /\ EmailMatch(e)
  /\ Len(Spell(p)) >= 8

\* validation of a new document by UserSchema: required paths and the email match
SchemaRejects(doc) ==
  \/ doc.username = ""
  \/ doc.email = ""
  \/ ~EmailMatch(doc.email)

(***************************************************************************)
(* The User collection: a sequence of documents in insertion order; a      *)
(* document's id is its position.                                          *)
(***************************************************************************)
NoId == 0

\* Model.findOne: the first matching document in natural order, or none
FindOne(matching) ==
  IF matching = {} THEN NoId
  ELSE CHOOSE i \in matching : \A j \in matching : i <= j

\* UserModel.findOne({ username, isVerified: true })
FindVerifiedByUsername(s, u) ==
  FindOne({i \in DOMAIN s : s[i].username = u /\ s[i].isVerified = TRUE})

\* UserModel.findOne({ email })
FindByEmail(s, e) == FindOne({i \in DOMAIN s : s[i].email = e})

\* a schema whose username path carries no unique index
UsernameIndexOff(s, doc) == FALSE

\* unique index of UserSchema.username
UsernameIndexHit(s, doc) == \E i \in DOMAIN s : s[i].username = doc.username

\* a schema whose email path carries no unique index
EmailIndexOff(s, doc) == FALSE

\* unique index of UserSchema.email
EmailIndexHit(s, doc) == \E i \in DOMAIN s : s[i].email = doc.email

\* E11000 duplicate key on insert
DuplicateKey(s, doc) == UsernameIndexHit(s, doc) \/ EmailIndexHit(s, doc)

\* new UserModel({...}) of the handler; the id is assigned by the store
NewUser(s, u, e, hash, code, expiry) ==
  [id |-> Len(s) + 1, username |-> u, email |-> e, password |-> hash,
   verifyCode |-> code, verifyCodeExpiry |-> expiry, isVerified |-> FALSE,
   isAcceptingMessages |-> TRUE, messages |-> <<>>]

\* newUser.save() throws: a ValidationError of the schema or E11000
SaveThrows(s, doc) == SchemaRejects(doc) \/ DuplicateKey(s, doc)

\* newUser.save(): validate, then insertOne
InsertDoc(s, doc) == IF SaveThrows(s, doc) THEN s ELSE Append(s, doc)

\* a handler whose re-registration leaves the code of the account in place
EditExistingKeepsCode(loaded, hash, code, expiry) ==
  [loaded EXCEPT !.password = hash, !.verifyCodeExpiry = expiry]

\* a re-registration that rebuilds the mailbox fields as for a new user
EditExistingResetsMailbox(loaded, hash, code, expiry) ==
  [loaded EXCEPT !.password = hash, !.verifyCode = code, !.verifyCodeExpiry = expiry,
                 !.isAcceptingMessages = TRUE, !.messages = <<>>]

\* the handler's assignments to the loaded document (re-registration)
EditExisting(loaded, hash, code, expiry) ==
  [loaded EXCEPT !.password = hash, !.verifyCode = code, !.verifyCodeExpiry = expiry]

\* existingUserByEmail.save(): updateOne({_id}, {$set: modified paths})
SaveExisting(s, loaded, edited) ==
  [s EXCEPT ![loaded.id] =
     [f \in DOMAIN @ |-> IF edited[f] # loaded[f] THEN edited[f] ELSE @[f]]]

\* new Date(Date.now() + 3600000)
ExpiryUpdate(t) == t + OneHourMs

\* expiryDate.setHours(expiryDate.getHours() + 1): one local hour ahead,
\* which is 3600000 ms wherever the UTC offset does not change in that hour
ExpiryInsert(t) == t + OneHourMs

(***************************************************************************)
(* sendVerificationEmail: the ApiResponse for a delivery that went through *)
(* (ok) or threw inside resend.emails.send.                                *)
(***************************************************************************)
NoMail == [to |-> "", username |-> "", otp |-> 0]

sendVerificationEmail(ok) ==
  IF ok
  THEN [success |-> TRUE, message |-> "Verification email sent successfully",
        isAcceptingMessages |-> TRUE]
  ELSE [success |-> FALSE, message |-> "Failed to send verification email",
        isAcceptingMessages |-> FALSE]

(***************************************************************************)
(* Responses of the sign-up handler.                                       *)
(***************************************************************************)
RespUsernameTaken ==
  [success |-> FALSE, message |-> "Username is already taken", status |-> 400]

RespEmailTaken ==
  [success |-> FALSE, message |-> "User already exists with this email", status |-> 400]

RespMailFailed(emailResponse) ==
  [success |-> FALSE, message |-> emailResponse.message, status |-> 500]

RespRegistered ==
  [success |-> TRUE,
   message |-> "User registered successfully. Please verify your account.",
   status |-> 201]

RespError ==
  [success |-> FALSE, message |-> "Error registering user", status |-> 500]

NoResp == [success |-> FALSE, message |-> "", status |-> 0]

(***************************************************************************)
(* The session token (strategy "jwt") and the session read from it.        *)
(***************************************************************************)
\* user._id?.toString(): the hexadecimal string of the ObjectId
ObjectIdToString(id) == <<"ObjectId", id>>

\* the claims of a token before the jwt callback has seen a user
NoClaims == [_id |-> <<>>, isVerified |-> FALSE, isAcceptingMessages |-> FALSE,
             username |-> ""]

\* the client holds no session cookie
NoToken == [payload |-> NoClaims, mac |-> [key |-> "", of |-> NoClaims]]

\* getServerSession() without a session
NoSession == [valid |-> FALSE, user |-> NoClaims]

\* NextResponse.next()
Allow == [kind |-> "next", to |-> <<>>]

(***************************************************************************)
(* The record of the operation that produced the current state.            *)
(***************************************************************************)
NoOp ==
  [op |-> "none", username |-> "", email |-> "", password |-> "", identifier |-> "",
   code |-> 0, path |-> "", senderUp |-> FALSE, resp |-> NoResp,
   mail |-> NoMail, pre |-> <<>>, at |-> 0, user |-> NoId, session |-> NoSession,
   route |-> <<>>, hadToken |-> FALSE, decision |-> Allow]

(***************************************************************************)
(* Init: an empty collection at time 0.                                    *)
(***************************************************************************)
Init ==
  /\ store = <<>>
  /\ now = 0
  /\ last = NoOp
  /\ reqs = <<>>
  /\ token = NoToken

\* a handler that looks the email up before it checks the username
PostPathEmailFirst(s, u, e) ==
  IF FindByEmail(s, e) # NoId /\ s[FindByEmail(s, e)].isVerified THEN "emailTaken"
  ELSE IF FindByEmail(s, e) # NoId THEN "update"
  ELSE IF FindVerifiedByUsername(s, u) # NoId THEN "usernameTaken"
  ELSE "insert"

\* a handler that updates whatever account holds the email
PostPathNoVerifiedCheck(s, u, e) ==
  IF FindVerifiedByUsername(s, u) # NoId THEN "usernameTaken"
  ELSE IF FindByEmail(s, e) = NoId THEN "insert"
  ELSE "update"

\* the branch the handler takes after both lookups
\* (lines 42, 57, 59, 75 of the handler)
PostPath(s, u, e) ==
  IF FindVerifiedByUsername(s, u) # NoId THEN "usernameTaken"
  ELSE IF FindByEmail(s, e) = NoId THEN "insert"
  ELSE IF s[FindByEmail(s, e)].isVerified THEN "emailTaken"
  ELSE "update"

\* the collection after the handler's write, if it makes one
PostStore(s, t, u, e, p, m, salt) ==
  LET path == PostPath(s, u, e)
      code == GenVerifyCode(m)
      hash == BcryptHash(p, salt)
      loaded == s[FindByEmail(s, e)]
  IN  CASE path = "update" ->
             SaveExisting(s, loaded, EditExisting(loaded, hash, code, ExpiryUpdate(t)))
        [] path = "insert" ->
             InsertDoc(s, NewUser(s, u, e, hash, code, ExpiryInsert(t)))
        [] OTHER -> s

\* newUser.save() threw (caught by the handler's catch block)
PostThrew(s, t, u, e, p, m, salt) ==
  /\ PostPath(s, u, e) = "insert"
  /\ SaveThrows(s, NewUser(s, u, e, BcryptHash(p, salt), GenVerifyCode(m), ExpiryInsert(t)))

\* whether the handler reaches sendVerificationEmail
PostSends(s, t, u, e, p, m, salt) ==
  /\ PostPath(s, u, e) \in {"insert", "update"}
  /\ ~PostThrew(s, t, u, e, p, m, salt)

\* a handler that does not look at the result of sendVerificationEmail
PostResponseIgnoresMail(s, t, u, e, p, m, salt, mailOk) ==
  LET path == PostPath(s, u, e)
  IN  CASE path = "usernameTaken" -> RespUsernameTaken
        [] path = "emailTaken" -> RespEmailTaken
        [] PostThrew(s, t, u, e, p, m, salt) -> RespError
        [] OTHER -> RespRegistered

\* the handler's response
PostResponse(s, t, u, e, p, m, salt, mailOk) ==
  LET path == PostPath(s, u, e)
  IN  CASE path = "usernameTaken" -> RespUsernameTaken
        [] path = "emailTaken" -> RespEmailTaken
        [] PostThrew(s, t, u, e, p, m, salt) -> RespError
        [] ~sendVerificationEmail(mailOk).success ->
             RespMailFailed(sendVerificationEmail(mailOk))
        [] OTHER -> RespRegistered

(***************************************************************************)
(* POST: one sign-up request, run from request.json() to its response with *)
(* no other request in between.                                            *)
(***************************************************************************)
POST(u, e, p, m, salt, mailOk) ==
  /\ store' = PostStore(store, now, u, e, p, m, salt)
  /\ last' = [NoOp EXCEPT
        !.op = "register", !.username = u, !.email = e, !.password = p,
        !.code = GenVerifyCode(m), !.path = PostPath(store, u, e),
        !.senderUp = mailOk,
        !.resp = PostResponse(store, now, u, e, p, m, salt, mailOk),
        !.mail = IF PostSends(store, now, u, e, p, m, salt)
                 THEN [to |-> e, username |-> u, otp |-> GenVerifyCode(m)]
                 ELSE NoMail,
        !.pre = store, !.at = now]
  /\ UNCHANGED <<now, reqs, token>>

\* the clock advances by an hour, up to a bound
TickUpTo(ticks) ==
  /\ now + OneHourMs <= ticks * OneHourMs
  /\ now' = now + OneHourMs
  /\ last' = [NoOp EXCEPT !.op = "tick", !.pre = store, !.at = now]
  /\ UNCHANGED <<store, reqs, token>>

(***************************************************************************)
(* Verification workflow {identifier, submittedCode}.                      *)
(***************************************************************************)
\* findByIdentifier: the account whose username or email is the identifier
FindByIdentifier(s, ident) ==
  FindOne({i \in DOMAIN s : s[i].email = ident \/ s[i].username = ident})

\* a workflow that treats the expiry instant itself as expired
VerifyOutcomeStrictExpiry(s, t, ident, submitted) ==
  LET id == FindByIdentifier(s, ident)
  IN  IF id = NoId THEN "NotFound"
      ELSE IF s[id].isVerified THEN "AlreadyVerified"
      ELSE IF t >= s[id].verifyCodeExpiry THEN "CodeExpired"
      ELSE IF submitted # s[id].verifyCode THEN "CodeMismatch"
      ELSE "Verified"

\* a workflow that compares the code before it looks at the expiry
VerifyOutcomeCodeFirst(s, t, ident, submitted) ==
  LET id == FindByIdentifier(s, ident)
  IN  IF id = NoId THEN "NotFound"
      ELSE IF s[id].isVerified THEN "AlreadyVerified"
      ELSE IF submitted # s[id].verifyCode THEN "CodeMismatch"
      ELSE IF t > s[id].verifyCodeExpiry THEN "CodeExpired"
      ELSE "Verified"

\* the outcome of a verification submitted at time t
VerifyOutcome(s, t, ident, submitted) ==
  LET id == FindByIdentifier(s, ident)
  IN  IF id = NoId THEN "NotFound"
      ELSE IF s[id].isVerified THEN "AlreadyVerified"
      ELSE IF t > s[id].verifyCodeExpiry THEN "CodeExpired"
      ELSE IF submitted # s[id].verifyCode THEN "CodeMismatch"
      ELSE "Verified"

\* an already verified account is reported as success, with no write
VerifyResponse(outcome) ==
  [success |-> outcome \in {"Verified", "AlreadyVerified"}, message |-> outcome,
   status |-> 0]

VerifyStore(s, t, ident, submitted) ==
  IF VerifyOutcome(s, t, ident, submitted) = "Verified"
  THEN [s EXCEPT ![FindByIdentifier(s, ident)].isVerified = TRUE]
  ELSE s

VerifyCode(ident, submitted) ==
  /\ store' = VerifyStore(store, now, ident, submitted)
  /\ last' = [NoOp EXCEPT
        !.op = "verify", !.identifier = ident, !.code = submitted,
        !.resp = VerifyResponse(VerifyOutcome(store, now, ident, submitted)),
        !.pre = store, !.at = now]
  /\ UNCHANGED <<now, reqs, token>>

(***************************************************************************)
(* Mailbox gate: the owner's accept flag and the append of an inbound      *)
(* message.                                                                *)
(***************************************************************************)
\* the owner of account i switches the flag
AcceptMessages(i, flag) ==
  /\ store' = [store EXCEPT ![i].isAcceptingMessages = flag]
  /\ last' = [NoOp EXCEPT !.op = "accept", !.pre = store, !.at = now]
  /\ UNCHANGED <<now, reqs, token>>

\* the collection after a message for username u arrives at time t
SendStore(s, t, u, content) ==
  LET i == FindOne({j \in DOMAIN s : s[j].username = u})
  IN  IF i # NoId /\ s[i].isAcceptingMessages
      THEN [s EXCEPT ![i].messages = Append(@, [content |-> content, createdAt |-> t])]
      ELSE s

SendMessage(u, content) ==
  /\ \A i \in DOMAIN store : Len(store[i].messages) < MaxMessages
  /\ store' = SendStore(store, now, u, content)
  /\ last' = [NoOp EXCEPT !.op = "message", !.username = u, !.pre = store, !.at = now]
  /\ UNCHANGED <<now, reqs, token>>

(***************************************************************************)
(* Spec: sign-up requests, verifications and the clock, one at a time.     *)
(***************************************************************************)
RegisterOver(emails) ==
  \E u \in Usernames, e \in emails, p \in Passwords, m \in RandomSamples,
     salt \in Salts, mailOk \in BOOLEAN : POST(u, e, p, m, salt, mailOk)

VerifyOver(emails) ==
  \E ident \in Usernames \cup emails, submitted \in Codes : VerifyCode(ident, submitted)

Register == RegisterOver(Emails)

Verify == VerifyOver(Emails)

Tick == TickUpTo(MaxTicks)

Next ==
  \/ Register
  \/ Verify
  \/ Tick

Spec == Init /\ [][Next]_vars

(***************************************************************************)
(* MailboxSpec: the same operations on one address, with the mailbox gate. *)
(***************************************************************************)
RegisterOne == RegisterOver(MailboxEmails)

VerifyOne == VerifyOver(MailboxEmails)

Accept == \E i \in DOMAIN store, flag \in BOOLEAN : AcceptMessages(i, flag)

Message == \E u \in Usernames, content \in Contents : SendMessage(u, content)

MailboxTick == TickUpTo(MailboxTicks)

MailboxNext ==
  \/ RegisterOne
  \/ VerifyOne
  \/ MailboxTick
  \/ Accept
  \/ Message

MailboxSpec == Init /\ [][MailboxNext]_vars

(***************************************************************************)
(* FrameSpec: sign-up requests and verifications on both addresses, with   *)
(* the mailbox of one address in use.  The clock stands still.             *)
(***************************************************************************)
FrameAccept ==
  \E i \in DOMAIN store, flag \in BOOLEAN :
    store[i].email \in MailboxEmails /\ AcceptMessages(i, flag)

FrameMessage ==
  \E i \in DOMAIN store, content \in Contents :
    store[i].email \in MailboxEmails /\ SendMessage(store[i].username, content)

FrameNext ==
  \/ Register
  \/ Verify
  \/ FrameAccept
  \/ FrameMessage

FrameSpec == Init /\ [][FrameNext]_vars

(***************************************************************************)
(* ConcSpec: sign-up requests in flight together.  A request gives way to  *)
(* the others at each await of the handler: the two findOne calls, save()  *)
(* and sendVerificationEmail.  The clock stands still.                     *)
(***************************************************************************)
\* existingUserByEmail when findOne found nothing
NoDoc ==
  [id |-> NoId, username |-> "", email |-> "", password |-> BcryptHash("", ""),
   verifyCode |-> 0, verifyCodeExpiry |-> 0, isVerified |-> FALSE,
   isAcceptingMessages |-> FALSE, messages |-> <<>>]

\* request.json(): a request enters the handler
Begin(u, e, p) ==
  /\ Len(reqs) < MaxRequests
  /\ reqs' = Append(reqs,
       [pc |-> "findUsername", username |-> u, email |-> e, password |-> p,
        code |-> 0, loaded |-> NoDoc, threw |-> FALSE, resp |-> NoResp,
        mail |-> NoMail])
  /\ UNCHANGED <<store, now, last, token>>

\* await UserModel.findOne({ username, isVerified: true }) and the early return
FindUsernameStep(r) ==
  /\ reqs[r].pc = "findUsername"
  /\ reqs' = [reqs EXCEPT ![r] =
       IF FindVerifiedByUsername(store, @.username) # NoId
       THEN [@ EXCEPT !.pc = "done", !.resp = RespUsernameTaken]
       ELSE [@ EXCEPT !.pc = "findEmail"]]
  /\ UNCHANGED <<store, now, last, token>>

\* await UserModel.findOne({ email }), the code draw and the verified branch
FindEmailStep(r, m) ==
  /\ reqs[r].pc = "findEmail"
  /\ LET id == FindByEmail(store, reqs[r].email)
         loaded == IF id = NoId THEN NoDoc ELSE store[id]
     IN  reqs' = [reqs EXCEPT ![r] =
           IF loaded.isVerified
           THEN [@ EXCEPT !.pc = "done", !.loaded = loaded, !.code = GenVerifyCode(m),
                          !.resp = RespEmailTaken]
           ELSE [@ EXCEPT !.pc = "save", !.loaded = loaded, !.code = GenVerifyCode(m)]]
  /\ UNCHANGED <<store, now, last, token>>

\* bcrypt.hash, the clock read and await save(), of the loaded or of a new document
SaveStep(r, salt) ==
  /\ reqs[r].pc = "save"
  /\ LET q == reqs[r]
         hash == BcryptHash(q.password, salt)
         doc == NewUser(store, q.username, q.email, hash, q.code, ExpiryInsert(now))
     IN  IF q.loaded.id # NoId
         THEN /\ store' = SaveExisting(store, q.loaded,
                            EditExisting(q.loaded, hash, q.code, ExpiryUpdate(now)))
              /\ reqs' = [reqs EXCEPT ![r].pc = "send"]
         ELSE /\ store' = InsertDoc(store, doc)
              /\ reqs' = [reqs EXCEPT ![r] =
                   IF SaveThrows(store, doc)
                   THEN [@ EXCEPT !.pc = "done", !.threw = TRUE, !.resp = RespError]
                   ELSE [@ EXCEPT !.pc = "send"]]
  /\ UNCHANGED <<now, last, token>>

\* await sendVerificationEmail(email, username, verifyCode) and the response
SendStep(r, mailOk) ==
  /\ reqs[r].pc = "send"
  /\ reqs' = [reqs EXCEPT ![r] =
       [@ EXCEPT !.pc = "done",
                 !.mail = [to |-> reqs[r].email, username |-> reqs[r].username,
                           otp |-> reqs[r].code],
                 !.resp = IF sendVerificationEmail(mailOk).success
                          THEN RespRegistered
                          ELSE RespMailFailed(sendVerificationEmail(mailOk))]]
  /\ UNCHANGED <<store, now, last, token>>

\* a verification between the steps of the requests
ConcVerifyCode(ident, submitted) ==
  /\ store' = VerifyStore(store, now, ident, submitted)
  /\ store' # store
  /\ UNCHANGED <<now, last, reqs, token>>

ConcBegin == \E u \in Usernames, e \in Emails, p \in ConcPasswords : Begin(u, e, p)

ConcFindUsername == \E r \in DOMAIN reqs : FindUsernameStep(r)

ConcFindEmail == \E r \in DOMAIN reqs, m \in RandomSamples : FindEmailStep(r, m)

ConcSave == \E r \in DOMAIN reqs, salt \in Salts : SaveStep(r, salt)

ConcSend == \E r \in DOMAIN reqs, mailOk \in BOOLEAN : SendStep(r, mailOk)

ConcVerify ==
  \E ident \in Usernames \cup Emails, submitted \in Codes : ConcVerifyCode(ident, submitted)

ConcNext ==
  \/ ConcBegin
  \/ ConcFindUsername
  \/ ConcFindEmail
  \/ ConcSave
  \/ ConcSend
  \/ ConcVerify

ConcSpec == Init /\ [][ConcNext]_vars

(***************************************************************************)
(* RaceSpec: one address.  Requests are first served one at a time; then   *)
(* requests are in flight together, with verifications between their      *)
(* steps.  bcrypt draws a new salt for every hash.  The clock stands       *)
(* still.                                                                  *)
(***************************************************************************)
\* bcrypt.genSalt of the hash of request r
RequestSalts == <<"salt2", "salt3", "salt4", "salt5">>

RaceSetUp ==
  /\ reqs = <<>>
  /\ \E u \in Usernames, e \in MailboxEmails, p \in Passwords, m \in RandomSamples,
        salt \in Salts : POST(u, e, p, m, salt, TRUE)

RaceBegin == \E u \in Usernames, e \in MailboxEmails, p \in Passwords : Begin(u, e, p)

\* floor(Math.random() * 900000) for the draws of the requests in flight
RaceSamples == {0, 1, CodeSpan - 1}

RaceFindEmail == \E r \in DOMAIN reqs, m \in RaceSamples : FindEmailStep(r, m)

RaceSave == \E r \in DOMAIN reqs : SaveStep(r, RequestSalts[r])

RaceSend == \E r \in DOMAIN reqs : SendStep(r, TRUE)

RaceVerify ==
  \E ident \in MailboxEmails, submitted \in Codes : ConcVerifyCode(ident, submitted)

RaceNext ==
  \/ RaceSetUp
  \/ RaceBegin
  \/ ConcFindUsername
  \/ RaceFindEmail
  \/ RaceSave
  \/ RaceSend
  \/ RaceVerify

RaceSpec == Init /\ [][RaceNext]_vars

(***************************************************************************)
(* Sign-in: authorize of the credentials provider, the jwt and session     *)
(* callbacks, and the signed session token the client carries.             *)
(***************************************************************************)
\* process.env.NEXTAUTH_SECRET
Secret == "NEXTAUTH_SECRET"

\* UserModel.findOne({ $or: [{ email: identifier }, { username: identifier }] })
FindByEmailOrUsername(s, ident) ==
  FindOne({i \in DOMAIN s : s[i].email = ident \/ s[i].username = ident})

\* authorize(credentials): the user it returns, or the Error it throws
authorize(s, ident, pw) ==
  LET id == FindByEmailOrUsername(s, ident)
  IN  IF id = NoId THEN [user |-> NoId, error |-> "User not found"]
      ELSE IF ~s[id].isVerified
        THEN [user |-> NoId, error |-> "Please verify your email to login"]
      ELSE IF ~BcryptCompare(pw, s[id].password)
        THEN [user |-> NoId, error |-> "Invalid credentials"]
      ELSE [user |-> id, error |-> ""]

\* an authorize that clears the spent code of the user it returns
AuthorizeStoreClearsCode(s, ident, pw) ==
  IF authorize(s, ident, pw).user = NoId THEN s
  ELSE [s EXCEPT ![authorize(s, ident, pw).user].verifyCode = 0]

\* the collection after authorize: it calls findOne and bcrypt.compare only
AuthorizeStore(s, ident, pw) == s

\* a jwt callback without the guard "if (user)": it copies the fields of a
\* missing user too
jwtUnguarded(tok, user) ==
  [tok EXCEPT !._id = ObjectIdToString(user.id),
              !.isVerified = user.isVerified,
              !.isAcceptingMessages = user.isAcceptingMessages,
              !.username = user.username]

\* a jwt callback that leaves the accept flag out of the token
jwtWithoutAcceptFlag(tok, user) ==
  IF user.id # NoId
  THEN [tok EXCEPT !._id = ObjectIdToString(user.id),
                   !.isVerified = user.isVerified,
                   !.username = user.username]
  ELSE tok

\* callbacks.jwt({ token, user }); user is NoDoc when the callback gets none
jwt(tok, user) ==
  IF user.id # NoId
  THEN [tok EXCEPT !._id = ObjectIdToString(user.id),
                   !.isVerified = user.isVerified,
                   !.isAcceptingMessages = user.isAcceptingMessages,
                   !.username = user.username]
  ELSE tok

\* callbacks.session({ session, token })
session(sess, tok) ==
  [sess EXCEPT !.user = [@ EXCEPT !._id = tok._id,
                                  !.isVerified = tok.isVerified,
                                  !.isAcceptingMessages = tok.isAcceptingMessages,
                                  !.username = tok.username]]

\* the token as the cookie carries it: the claims under a code keyed by the secret
encode(claims, key) == [payload |-> claims, mac |-> [key |-> key, of |-> claims]]

\* whether the cookie decodes under the key
decodes(tok, key) == tok # NoToken /\ tok.mac = [key |-> key, of |-> tok.payload]

\* signIn("credentials", { identifier, password }): authorize, then the jwt
\* callback with the returned user, then the cookie
SignIn(ident, pw) ==
  LET r == authorize(store, ident, pw)
  IN  /\ store' = AuthorizeStore(store, ident, pw)
      /\ token' = IF r.user # NoId
                  THEN encode(jwt(NoClaims, store[r.user]), Secret)
                  ELSE token
      /\ last' = [NoOp EXCEPT
            !.op = "signIn", !.identifier = ident, !.password = pw,
            !.resp = [success |-> r.user # NoId, message |-> r.error, status |-> 0],
            !.user = r.user, !.pre = store, !.at = now]
      /\ UNCHANGED <<now, reqs>>

\* getServerSession(authOptions): decode the cookie, the jwt callback without a
\* user, the session callback, and the cookie written back
GetSession ==
  LET valid == decodes(token, Secret)
      claims == jwt(token.payload, NoDoc)
  IN  /\ token' = IF valid THEN encode(claims, Secret) ELSE NoToken
      /\ last' = [NoOp EXCEPT
            !.op = "session",
            !.session = IF valid THEN session([valid |-> TRUE, user |-> NoClaims], claims)
                        ELSE NoSession,
            !.pre = store, !.at = now]
      /\ UNCHANGED <<store, now, reqs>>

\* the client alters the cookie it holds without the secret: the claims in it
\* (sigOnly false) or the code under them (sigOnly true)
Tamper(c, sigOnly) ==
  /\ decodes(token, Secret)
  /\ c # token.payload
  /\ token' = IF sigOnly THEN [token EXCEPT !.mac.key = "tampered"]
              ELSE [token EXCEPT !.payload = c]
  /\ last' = [NoOp EXCEPT !.op = "tamper", !.pre = store, !.at = now]
  /\ UNCHANGED <<store, now, reqs>>

(***************************************************************************)
(* Route guard: middleware.ts with its matcher.  A pathname is the         *)
(* sequence of its segments: "/" is <<>>, "/dashboard/x" is                *)
(* <<"dashboard", "x">>.                                                   *)
(***************************************************************************)
\* the segment names of the requests that begin with a longer spelling of another
LongerNames == {<<"signinx", "signin">>, <<"signupx", "signup">>,
                <<"dashboards", "dashboard">>}

\* String.prototype.startsWith on "/" + name: the first segment is the name or a
\* longer spelling of it
StartsWith(pathname, name) ==
  /\ Len(pathname) >= 1
  /\ pathname[1] = name \/ <<pathname[1], name>> \in LongerNames

\* NextResponse.redirect(new URL(pathname, request.url))
RedirectTo(pathname) == [kind |-> "redirect", to |-> pathname]

\* config.matcher: "/dashboard/:path*", "/profile/:path*", "/signin", "/signup", "/"
matcher(pathname) ==
  \/ Len(pathname) >= 1 /\ pathname[1] = "dashboard"
  \/ Len(pathname) >= 1 /\ pathname[1] = "profile"
  \/ pathname = <<"signin">>
  \/ pathname = <<"signup">>
  \/ pathname = <<>>

\* a middleware that treats the sign-in page as a protected page
middlewareGuardsSignIn(hasToken, pathname) ==
  IF hasToken /\ (\/ StartsWith(pathname, "signin")
                  \/ StartsWith(pathname, "signup")
                  \/ pathname = <<>>)
  THEN RedirectTo(<<"dashboard">>)
  ELSE IF ~hasToken /\ (\/ StartsWith(pathname, "dashboard")
                        \/ StartsWith(pathname, "signin"))
  THEN RedirectTo(<<"signin">>)
  ELSE Allow

\* a middleware that forgets the landing page
middlewareWithoutLanding(hasToken, pathname) ==
  IF hasToken /\ (StartsWith(pathname, "signin") \/ StartsWith(pathname, "signup"))
  THEN RedirectTo(<<"dashboard">>)
  ELSE IF ~hasToken /\ StartsWith(pathname, "dashboard")
  THEN RedirectTo(<<"signin">>)
  ELSE Allow

\* export async function middleware(request), hasToken = getToken found a token
middleware(hasToken, pathname) ==
  IF hasToken /\ (\/ StartsWith(pathname, "signin")
                  \/ StartsWith(pathname, "signup")
                  \/ pathname = <<>>)
  THEN RedirectTo(<<"dashboard">>)
  ELSE IF ~hasToken /\ StartsWith(pathname, "dashboard")
  THEN RedirectTo(<<"signin">>)
  ELSE Allow

\* the answer to a request: the middleware runs on the paths of the matcher only
decide(hasToken, pathname) ==
  IF matcher(pathname) THEN middleware(hasToken, pathname) ELSE Allow

\* a request for a page, with the cookie the client holds
Route(pathname) ==
  /\ last' = [NoOp EXCEPT
        !.op = "route", !.route = pathname, !.hadToken = decodes(token, Secret),
        !.decision = decide(decodes(token, Secret), pathname),
        !.pre = store, !.at = now]
  /\ UNCHANGED <<store, now, reqs, token>>

(***************************************************************************)
(* AuthSpec: sign-up, verification, the accept flag, sign-in and the route *)
(* guard.  The sign-up handler validates no input, so a username may be an *)
(* address.                                                                *)
(* The clock stands still.                                                 *)
(***************************************************************************)
AuthUsernames == {"alice", "a@x.com"}

AuthPasswords == {"12345678"}

AuthSamples == {0}

\* what a sign-in form may carry
SignInIdentifiers == AuthUsernames \cup Emails \cup {"nobody"}

SignInPasswords == AuthPasswords \cup {"wrong-password"}

\* the claims a client may write into its cookie
ForgedClaims ==
  {[_id |-> ObjectIdToString(i), isVerified |-> TRUE, isAcceptingMessages |-> TRUE,
    username |-> "alice"] : i \in {1}}

AuthRegister ==
  \E u \in AuthUsernames, e \in Emails, p \in AuthPasswords, m \in AuthSamples,
     salt \in Salts : POST(u, e, p, m, salt, TRUE)

AuthVerify ==
  \E ident \in AuthUsernames \cup Emails, m \in AuthSamples :
    VerifyCode(ident, GenVerifyCode(m))

AuthSignIn == \E ident \in SignInIdentifiers, pw \in SignInPasswords : SignIn(ident, pw)

AuthTamper == \E c \in ForgedClaims, sigOnly \in BOOLEAN : Tamper(c, sigOnly)

\* the pathnames asked for
RequestPaths ==
  {<<>>, <<"signin">>, <<"signup">>, <<"dashboard">>, <<"dashboard", "x">>,
   <<"about">>, <<"profile", "x">>, <<"signin", "x">>, <<"signinx">>,
   <<"signupx">>, <<"dashboards">>, <<"sign-in">>}

AuthRoute == \E pathname \in RequestPaths : Route(pathname)

AuthNext ==
  \/ AuthRegister
  \/ AuthVerify
  \/ Accept
  \/ AuthSignIn
  \/ GetSession
  \/ AuthTamper
  \/ AuthRoute

AuthSpec == Init /\ [][AuthNext]_vars

(***************************************************************************)
(* InputSpec: sign-up requests whose fields may be malformed, and          *)
(* verifications.  The clock stands still.                                 *)
(***************************************************************************)
InputUsernames == {"alice", "ab", "a_b", "averyveryverylongname"}

InputEmails == {"a@x.com", "b@x.com", "not-an-email"}

InputPasswords == {"12345678", "short"}

InputRegister ==
  \E u \in InputUsernames, e \in InputEmails, p \in InputPasswords, m \in AuthSamples,
     salt \in Salts : POST(u, e, p, m, salt, TRUE)

InputVerify ==
  \E ident \in InputEmails, m \in AuthSamples : VerifyCode(ident, GenVerifyCode(m))

InputNext ==
  \/ InputRegister
  \/ InputVerify

InputSpec == Init /\ [][InputNext]_vars

(***************************************************************************)
(* Vocabulary of the claims.                                               *)
(***************************************************************************)
HoldsEmail(s, e) == \E i \in DOMAIN s : s[i].email = e

HoldsUsername(s, u) == \E i \in DOMAIN s : s[i].username = u

VerifiedOwner(s, u) == \E i \in DOMAIN s : s[i].username = u /\ s[i].isVerified

SixDigit(code) == code >= 100000 /\ code <= 999999

\* the fields a re-registration must leave alone
SameIdentity(a, b) ==
  /\ a.id = b.id
  /\ a.username = b.username
  /\ a.email = b.email
  /\ a.isVerified = b.isVerified
  /\ a.isAcceptingMessages = b.isAcceptingMessages
  /\ a.messages = b.messages

\* the credentials a registration at time t with password p and code c writes
FreshCredentials(d, p, c, t) ==
  /\ BcryptCompare(p, d.password)
  /\ d.verifyCode = c
  /\ d.verifyCodeExpiry = t + OneHourMs

IsRegister == last.op = "register"

IsVerify == last.op = "verify"

\* C1: a registration whose email no account holds and whose username no verified
\* account holds reports success (the sender working) and leaves exactly one new
\* account for the email: unverified, no messages, a 6-digit code, expiry one
\* hour after the request.
C1_FirstRegistrationSucceeds ==
  (/\ IsRegister
   /\ last.senderUp
   /\ ~HoldsEmail(last.pre, last.email)
   /\ ~VerifiedOwner(last.pre, last.username))
  => /\ last.resp = RespRegistered
     /\ Len(store) = Len(last.pre) + 1
     /\ Cardinality({i \in DOMAIN store : store[i].email = last.email}) = 1
     /\ \A i \in DOMAIN store :
          store[i].email = last.email =>
            /\ store[i].isVerified = FALSE
            /\ store[i].messages = <<>>
            /\ SixDigit(store[i].verifyCode)
            /\ store[i].verifyCodeExpiry = last.at + OneHourMs

\* C3: a registration whose username a verified account owns is answered
\* UsernameTaken whatever its email, changes no account and dispatches no email.
C3_UsernameTaken ==
  (IsRegister /\ VerifiedOwner(last.pre, last.username))
  => /\ last.resp = RespUsernameTaken
     /\ store = last.pre
     /\ last.mail = NoMail

\* the rejected request named the email of another, unverified account
C3_Witness ==
  /\ IsRegister
  /\ VerifiedOwner(last.pre, last.username)
  /\ \E i \in DOMAIN last.pre :
       last.pre[i].email = last.email /\ ~last.pre[i].isVerified
  /\ last.resp = RespUsernameTaken

\* C4: a registration whose email a verified account holds (its username owned by
\* no verified account) is answered EmailTaken; no account changes, none is
\* created and no email is dispatched.
C4_EmailTaken ==
  (/\ IsRegister
   /\ ~VerifiedOwner(last.pre, last.username)
   /\ \E i \in DOMAIN last.pre : last.pre[i].email = last.email /\ last.pre[i].isVerified)
  => /\ last.resp = RespEmailTaken
     /\ store = last.pre
     /\ last.mail = NoMail

\* the rejected request carried another password and another code than the account's
C4_Witness ==
  /\ IsRegister
  /\ last.resp = RespEmailTaken
  /\ \E i \in DOMAIN last.pre :
       /\ last.pre[i].email = last.email
       /\ last.pre[i].isVerified
       /\ ~BcryptCompare(last.password, last.pre[i].password)
       /\ last.pre[i].verifyCode # last.code
       /\ last.pre[i].verifyCodeExpiry # last.at + OneHourMs

\* C6: no two verified accounts have the same username.
C6_VerifiedUsernamesUnique ==
  \A i, j \in DOMAIN store :
    (i # j /\ store[i].isVerified /\ store[j].isVerified)
      => store[i].username # store[j].username

\* two verified accounts exist
C6_Witness ==
  \E i, j \in DOMAIN store : i # j /\ store[i].isVerified /\ store[j].isVerified

\* C7: a registration with an unused email and a username held only by unverified
\* accounts succeeds (the sender working) and adds a second unverified account
\* with that username, the earlier accounts unchanged.
C7_UnverifiedDoesNotBlock ==
  (/\ IsRegister
   /\ last.senderUp
   /\ ~HoldsEmail(last.pre, last.email)
   /\ HoldsUsername(last.pre, last.username)
   /\ ~VerifiedOwner(last.pre, last.username))
  => /\ last.resp = RespRegistered
     /\ Len(store) = Len(last.pre) + 1
     /\ store[Len(store)].username = last.username
     /\ store[Len(store)].email = last.email
     /\ store[Len(store)].isVerified = FALSE
     /\ \A i \in DOMAIN last.pre : store[i] = last.pre[i]

\* what a re-registration does to account i of the collection before it: the
\* password hash, code and expiry are this request's, its id, username, email,
\* isVerified, isAcceptingMessages and messages are as they were, no account is
\* created and no other account changes
ReRegistered(i) ==
  /\ Len(store) = Len(last.pre)
  /\ FreshCredentials(store[i], last.password, last.code, last.at)
  /\ SameIdentity(store[i], last.pre[i])
  /\ store[i].isVerified = FALSE
  /\ \A j \in DOMAIN last.pre : j # i => store[j] = last.pre[j]

MailFailed(l) == l.op = "register" /\ l.mail # NoMail /\ ~l.senderUp

\* C8, the failed dispatch: the caller is told of the failure, and the account of
\* that email holds this request's password hash, code and expiry.
C8_FailureAfterCommit ==
  MailFailed(last)
  => /\ last.resp.success = FALSE
     /\ last.resp.message = "Failed to send verification email"
     /\ \E i \in DOMAIN store :
          /\ store[i].email = last.email
          /\ ~store[i].isVerified
          /\ FreshCredentials(store[i], last.password, last.code, last.at)

\* the registration that has followed re-registered: it updated the account of its
\* email instead of inserting one and, the sender working, reported success
Retried ==
  /\ last'.path = "update"
  /\ Len(store') = Len(store)
  /\ \E i \in DOMAIN store' :
       /\ store'[i].email = last'.email
       /\ FreshCredentials(store'[i], last'.password, last'.code, last'.at)
  /\ last'.senderUp => last'.resp = RespRegistered

\* C8 as stated, the retry: the registration that follows with the same email,
\* whatever its username, re-registers.
C8_RetryAsClaimed ==
  (/\ MailFailed(last)
   /\ last'.op = "register"
   /\ last'.email = last.email)
  => Retried

\* C8 as stated: a failed dispatch is reported while the write stays committed,
\* and every following registration with the same email re-registers and, the
\* sender working, reports success.
C8_AsClaimed == [](C8_FailureAfterCommit) /\ [][C8_RetryAsClaimed]_vars

\* C8, the retry: the registration that follows with the same email and a username
\* that no verified account owns re-registers.
C8_RetryStep ==
  (/\ MailFailed(last)
   /\ last'.op = "register"
   /\ last'.email = last.email
   /\ ~VerifiedOwner(store, last'.username))
  => Retried

\* C8: a failed dispatch is reported while the write stays committed, and the
\* following registration with the same email and a username that no verified
\* account owns re-registers and, the sender working, reports success.
C8_MailFailure == [](C8_FailureAfterCommit) /\ [][C8_RetryStep]_vars

\* a failed dispatch of a re-registration that changed the password and the code
C8_Witness ==
  /\ MailFailed(last)
  /\ last.path = "update"
  /\ \E i \in DOMAIN last.pre :
       /\ last.pre[i].email = last.email
       /\ ~BcryptCompare(last.password, last.pre[i].password)
       /\ last.pre[i].verifyCode # last.code

\* the accounts of collection s that identifier ident names
Named(s, ident) == {i \in DOMAIN s : s[i].email = ident \/ s[i].username = ident}

\* C9: a verification with the account's code, not after its expiry, makes an
\* unverified account verified; no operation makes a verified account unverified;
\* the same code submitted again is answered success and changes nothing.
C9_VerifiedOnce ==
  /\ \A i \in DOMAIN last.pre : last.pre[i].isVerified => store[i].isVerified
  /\ \A i \in Named(last.pre, last.identifier) :
       (/\ IsVerify
        /\ last.code = last.pre[i].verifyCode
        /\ last.at <= last.pre[i].verifyCodeExpiry)
       => /\ last.resp.success
          /\ store[i].isVerified
          /\ store = [last.pre EXCEPT ![i].isVerified = TRUE]
  /\ \A i \in Named(last.pre, last.identifier) :
       (/\ IsVerify
        /\ last.pre[i].isVerified
        /\ last.code = last.pre[i].verifyCode)
       => /\ last.resp.success
          /\ store = last.pre

\* the code that verified the account is submitted again
C9_Witness ==
  \E i \in Named(last.pre, last.identifier) :
    /\ IsVerify
    /\ last.pre[i].isVerified
    /\ last.code = last.pre[i].verifyCode
    /\ last.at <= last.pre[i].verifyCodeExpiry
    /\ last.resp.success

\* C10: on an unverified account, a verification after the expiry is answered
\* CodeExpired whether or not the code is right, and a wrong code not after the
\* expiry is answered CodeMismatch; neither changes the account.
C10_ExpiredOrMismatch ==
  \A i \in Named(last.pre, last.identifier) :
    (IsVerify /\ ~last.pre[i].isVerified)
    => /\ last.at > last.pre[i].verifyCodeExpiry
            => /\ last.resp.success = FALSE
               /\ last.resp.message = "CodeExpired"
               /\ store = last.pre
       /\ (last.at <= last.pre[i].verifyCodeExpiry /\ last.code # last.pre[i].verifyCode)
            => /\ last.resp.success = FALSE
               /\ last.resp.message = "CodeMismatch"
               /\ store = last.pre

\* the right code, submitted after the expiry
C10_Witness ==
  \E i \in Named(last.pre, last.identifier) :
    /\ IsVerify
    /\ ~last.pre[i].isVerified
    /\ last.at > last.pre[i].verifyCodeExpiry
    /\ last.code = last.pre[i].verifyCode
    /\ last.resp.message = "CodeExpired"

\* the requests that looked email e up, found no account and have been answered
SawNoAccount(e) ==
  {r \in DOMAIN reqs :
     /\ reqs[r].email = e
     /\ reqs[r].pc = "done"
     /\ reqs[r].resp \notin {RespUsernameTaken, RespEmailTaken}
     /\ reqs[r].loaded.id = NoId}

\* C5: in every interleaving of sign-up requests at most one account holds an
\* email; of the requests that found no account for the same email at most one
\* inserts, and every other one is answered with a failure.
C5_EmailUnique ==
  /\ \A i, j \in DOMAIN store : i # j => store[i].email # store[j].email
  /\ \A r \in DOMAIN reqs : reqs[r].threw => reqs[r].resp.success = FALSE
  /\ \A e \in Emails :
       Cardinality({r \in SawNoAccount(e) : reqs[r].resp # RespError}) <= 1
  /\ \A e \in Emails :
       \A r \in SawNoAccount(e) :
         reqs[r].resp.success =>
           \E i \in DOMAIN store :
             store[i].email = e /\ store[i].username = reqs[r].username

\* two requests with different usernames both found no account for the email;
\* one was answered success, the other the registration error
C5_Witness ==
  \E e \in Emails :
    \E r1, r2 \in SawNoAccount(e) :
      /\ reqs[r1].username # reqs[r2].username
      /\ reqs[r1].resp = RespRegistered
      /\ reqs[r2].resp = RespError
      /\ Cardinality({i \in DOMAIN store : store[i].email = e}) = 1

\* the registration recorded in last re-registered account i with a code other
\* than the one the account held
ReIssued(i) ==
  /\ last.op = "register"
  /\ last.path = "update"
  /\ i \in DOMAIN last.pre
  /\ last.pre[i].email = last.email
  /\ last.pre[i].verifyCode # last.code

\* C11, the verification that follows the re-registration (not after the new
\* expiry): the account has kept its username; the earlier code is answered
\* CodeMismatch and leaves the account unverified; the new code verifies it.
C11_AfterReIssue ==
  \A i \in DOMAIN store :
    (/\ ReIssued(i)
     /\ last'.op = "verify"
     /\ i \in Named(store, last'.identifier)
     /\ last'.at <= store[i].verifyCodeExpiry)
    => /\ store[i].username = last.pre[i].username
       /\ last'.code = last.pre[i].verifyCode
            => /\ last'.resp.success = FALSE
               /\ last'.resp.message = "CodeMismatch"
               /\ store' = store
               /\ store'[i].isVerified = FALSE
       /\ last'.code = last.code
            => /\ last'.resp.success
               /\ store'[i].isVerified

\* C11, the verification that follows a CodeMismatch: the account's code, not
\* after its expiry, still verifies it.
C11_AfterMismatch ==
  \A i \in DOMAIN store :
    (/\ last.op = "verify"
     /\ last.resp.message = "CodeMismatch"
     /\ i \in Named(last.pre, last.identifier)
     /\ last'.op = "verify"
     /\ i \in Named(store, last'.identifier)
     /\ last'.code = store[i].verifyCode
     /\ last'.at <= store[i].verifyCodeExpiry)
    => /\ last'.resp.success
       /\ store'[i].isVerified

\* C11: a re-registration invalidates the earlier code: the account keeps its
\* username, a verification with the earlier code is answered CodeMismatch and
\* leaves the account unverified, and a verification with the new code, before
\* its expiry, then succeeds.
C11_ReRegistrationInvalidatesCode ==
  [][C11_AfterReIssue /\ C11_AfterMismatch]_vars

\* a re-registration under another username that changed the code of the account
C11_Witness ==
  \E i \in DOMAIN store :
    /\ ReIssued(i)
    /\ last.pre[i].username # last.username
    /\ store[i].verifyCode = last.code
    /\ store[i].username = last.pre[i].username

IsSignIn == last.op = "signIn"

\* the externally visible failures of the authenticator
NotVerified == "Please verify your email to login"

InvalidCredentials == "Invalid credentials"

\* the accounts of the collection before the sign-in that its identifier matches
\* by username or by email
Matched == {i \in DOMAIN last.pre :
              last.pre[i].email = last.identifier \/ last.pre[i].username = last.identifier}

\* C12: the authenticator returns the account if and only if an account matches
\* the identifier by username or email, is verified and the password verifies
\* against its hash; it fails with NotVerified whenever the matched account is
\* unverified and with InvalidCredentials for a wrong password on a verified one.
C12_AuthOutcome ==
  IsSignIn =>
    /\ last.resp.success <=>
         \E i \in Matched :
           last.pre[i].isVerified /\ BcryptCompare(last.password, last.pre[i].password)
    /\ last.resp.success =>
         /\ last.user \in Matched
         /\ last.pre[last.user].isVerified
         /\ BcryptCompare(last.password, last.pre[last.user].password)
    /\ \A i \in Matched :
         ~last.pre[i].isVerified => last.resp.message = NotVerified
    /\ \A i \in Matched :
         (last.pre[i].isVerified /\ ~BcryptCompare(last.password, last.pre[i].password))
           => last.resp.message = InvalidCredentials

\* C13: for any password, the failure of the authenticator for an identifier that
\* matches no account is the failure for a wrong password on a verified account,
\* InvalidCredentials, so the caller cannot tell the two apart.
C13_NoEnumeration ==
  IsSignIn =>
    /\ Matched = {}
         => last.resp = [success |-> FALSE, message |-> InvalidCredentials, status |-> 0]
    /\ (\E i \in Matched :
          /\ last.pre[i].isVerified
          /\ ~BcryptCompare(last.password, last.pre[i].password)
          /\ \A j \in Matched : j = i)
         => last.resp = [success |-> FALSE, message |-> InvalidCredentials, status |-> 0]

\* C14: the authenticator writes nothing: whatever the input and the outcome, the
\* collection after the call is the collection before it.
C14_AuthNoWrites == IsSignIn => store = last.pre

\* a successful sign-in to one of two accounts
C14_Witness ==
  /\ IsSignIn
  /\ last.resp.success
  /\ Len(store) = 2
  /\ last.user \in DOMAIN store

\* the four claims of account d
ClaimsOf(d) ==
  [_id |-> ObjectIdToString(d.id), username |-> d.username,
   isVerified |-> d.isVerified, isAcceptingMessages |-> d.isAcceptingMessages]

\* what the session callback makes of the claims the cookie decodes to
Decoded(tok) == session([valid |-> TRUE, user |-> NoClaims], tok.payload).user

\* C15, issuance: the token issued for the account the authenticator returned
\* decodes, through the session callback, to exactly the id, username, isVerified
\* and isAcceptingMessages of that account.
C15_Issued ==
  (IsSignIn /\ last.resp.success)
  => /\ decodes(token, Secret)
     /\ Decoded(token) = ClaimsOf(store[last.user])

\* C15, afterwards: a session read, which runs the jwt callback without a user,
\* returns the claims of the token and leaves them in it; a token altered
\* without the secret no longer decodes and is read as no session.
C15_Read ==
  /\ (last'.op = "session" /\ decodes(token, Secret))
       => /\ last'.session.valid
          /\ last'.session.user = Decoded(token)
          /\ decodes(token', Secret)
          /\ token'.payload = token.payload
  /\ last'.op = "tamper" => ~decodes(token', Secret)
  /\ (last'.op = "session" /\ ~decodes(token, Secret)) => last'.session = NoSession

\* C15: token round trip: the claims decoded from the issued token are exactly
\* those of the account at issuance, later jwt callbacks without a user leave
\* them unchanged, and a token with a tampered signature decodes to Invalid.
C15_TokenRoundTrip == [](C15_Issued) /\ [][C15_Read]_vars

\* a token issued for the second account, which had switched accepting off
C15_Witness ==
  /\ IsSignIn
  /\ last.resp.success
  /\ last.user = 2
  /\ store[2].isAcceptingMessages = FALSE
  /\ Decoded(token).isAcceptingMessages = FALSE

\* C16, issuance: a token issued by an authentication carries the accept flag
\* the store holds at that moment.
C16_Issued ==
  (IsSignIn /\ last.resp.success)
  => Decoded(token).isAcceptingMessages = store[last.user].isAcceptingMessages

\* C16, afterwards: no operation on the store and no session read changes what
\* the token decodes to; only a new authentication does.
C16_Kept ==
  (last'.op \in {"accept", "register", "verify", "session"} /\ decodes(token, Secret))
  => /\ decodes(token', Secret)
     /\ Decoded(token') = Decoded(token)
     /\ last'.op = "session" => last'.session.user = Decoded(token)

\* C16: claims are a snapshot: after the accept flag changes in the store the
\* token still decodes to the value held at issuance, until a new authentication
\* issues a token with the current value.
C16_Snapshot == [](C16_Issued) /\ [][C16_Kept]_vars

\* a session read that returns an accept flag the store no longer holds
C16_Witness ==
  /\ last.op = "session"
  /\ last.session.valid
  /\ \E i \in DOMAIN store :
       /\ last.session.user._id = ObjectIdToString(store[i].id)
       /\ last.session.user.isAcceptingMessages # store[i].isAcceptingMessages

IsRoute == last.op = "route"

Malformed == ~signupSchema(last.username, last.email, last.password)

\* C18: a registration with a malformed username, email or password is rejected
\* before the store is touched: it is answered with a failure, creates and
\* modifies no account and dispatches no email.
C18_MalformedRejected ==
  (IsRegister /\ Malformed)
  => /\ last.resp.success = FALSE
     /\ store = last.pre
     /\ last.mail = NoMail

\* request r has completed a re-registration: it loaded an unverified account of
\* its email and has been answered after its save()
ReRegistrationDone(r) ==
  /\ reqs[r].pc = "done"
  /\ reqs[r].loaded.id # NoId
  /\ ~reqs[r].loaded.isVerified
  /\ reqs[r].resp \notin {RespUsernameTaken, RespEmailTaken}

\* the password hash, code and expiry of document d are those request r wrote
WrittenBy(d, r) ==
  /\ d.password = BcryptHash(reqs[r].password, RequestSalts[r])
  /\ d.verifyCode = reqs[r].code
  /\ d.verifyCodeExpiry = now + OneHourMs

\* C19: after two re-registrations of the same unverified email have completed,
\* in any interleaving, the account's password hash, code and expiry all come
\* from one and the same request, and exactly one account holds the email.
C19_LastWriteWins ==
  \A r1, r2 \in DOMAIN reqs :
    (/\ r1 # r2
     /\ reqs[r1].email = reqs[r2].email
     /\ ReRegistrationDone(r1)
     /\ ReRegistrationDone(r2)
     /\ \A r \in DOMAIN reqs : reqs[r].pc = "done")
    => /\ Cardinality({i \in DOMAIN store : store[i].email = reqs[r1].email}) = 1
       /\ \A i \in DOMAIN store :
            store[i].email = reqs[r1].email
              => WrittenBy(store[i], r1) \/ WrittenBy(store[i], r2)

\* C20: once an account is verified, no step of a registration, in any
\* interleaving, changes its password hash, code or expiry.
C20_VerifiedUntouched ==
  [][\A i \in DOMAIN store :
       store[i].isVerified
         => /\ store'[i].password = store[i].password
            /\ store'[i].verifyCode = store[i].verifyCode
            /\ store'[i].verifyCodeExpiry = store[i].verifyCodeExpiry]_vars


\* the verified accounts of the collection before the sign-in whose username is
\* the identifier and whose hash the submitted password verifies against
OwnersByUsername ==
  {i \in DOMAIN last.pre :
     /\ last.pre[i].isVerified
     /\ last.pre[i].username = last.identifier
     /\ BcryptCompare(last.password, last.pre[i].password)}

\* C21: a verified user can always sign in by username: when a verified account
\* has the username given as identifier and the submitted password verifies
\* against its hash, the authenticator succeeds and returns that account,
\* whatever other accounts the collection holds.
C21_VerifiedSignsInByUsername ==
  IsSignIn =>
    \A i \in OwnersByUsername : last.resp.success /\ last.user = i


\* the guard answered the request recorded in last with a redirect
Redirected == IsRoute /\ last.decision.kind = "redirect"

\* the guard's answer to the target of the redirect, with the same token presence
C22_TargetAllowed ==
  Redirected => decide(last.hadToken, last.decision.to) = Allow

\* a request for the target of the redirect just answered, with the same token
\* presence, is allowed
C22_Followed ==
  (Redirected /\ IsRoute' /\ last'.route = last.decision.to
     /\ last'.hadToken = last.hadToken)
    => last'.decision = Allow

\* C22: the route guard never produces a redirect loop: whenever it answers a
\* request with a redirect to a path p, it answers a request for p with the same
\* token presence with Allow.
C22_NoRedirectLoop == [](C22_TargetAllowed) /\ [][C22_Followed]_vars

\* a client without a token asks for a page under /dashboard and is sent to the
\* sign-in page, which the guard lets it see
C22_Witness ==
  /\ Redirected
  /\ ~last.hadToken
  /\ last.route = <<"dashboard", "x">>
  /\ last.decision = RedirectTo(<<"signin">>)
  /\ decide(FALSE, <<"signin">>) = Allow

====
